---- MODULE Spec2Model ----
(***************************************************************************)
(* PiMento (pimento.py): a time-lapse driver.  Session.__init__ parses the *)
(* command line into a session; record() loops forever: send_command()     *)
(* calls raspistill (and cp in broadcast mode), the frame counter is        *)
(* advanced, a progress line is written and the loop sleeps for the rest of *)
(* the interval.  Strings are modelled as sequences of one-character        *)
(* strings, so that concatenation, the substring test and the int()/str()   *)
(* conversions are computed and not assumed.                                *)
(***************************************************************************)
EXTENDS Integers, Sequences, FiniteSets, TLC

VARIABLES
    argv,          \* sys.argv
    session,       \* the Session object, once constructed
    pc,            \* where the script is
    exc,           \* the exception that ended the script, "none" before
    exitStatus,    \* the exit status of the process, -1 while it runs
    now,           \* time.time(), in seconds since the script started
    starttime,     \* starttime of record()
    routinestart,  \* routinestart of the loop body
    sleepArg,      \* the argument of the last time.sleep call
    issued,        \* the commands passed to subprocess.call, in order
    retcode,       \* what the last subprocess.call returned, -1 if it did not return
    iteration,     \* the number of loop iterations begun
    farewells,     \* the number of "Exiting..." lines printed
    budget         \* the number of loop iterations the model lets a run begin

vars == <<argv, session, pc, exc, exitStatus, now, starttime, routinestart,
          sleepArg, issued, retcode, iteration, farewells, budget>>

(* ------------------------------ bounds -------------------------------- *)
\* longest command line (after argv[0]) of the parsing specification
MaxArgs == 4
\* longest generated command line of the whole-program specification
MaxSchedArgs == 2
\* loop iterations after which the model stops starting new ones
MaxFrames == 3
\* longest time (seconds) one external command takes
MaxLatency == 9
\* longest time (seconds) the clear command takes
MaxClearLatency == 1
\* loop iterations of the long runs: one more than a day of hourly frames
MaxLongFrames == 25

(* ------------------------------ strings ------------------------------- *)
Digits == <<"0", "1", "2", "3", "4", "5", "6", "7", "8", "9">>

IsDigit(c) == \E d \in 1..10 : Digits[d] = c

DigitVal(c) == (CHOOSE d \in 1..10 : Digits[d] = c) - 1

\* the "in" operator of Python on two strings
Contains(sub, s) ==
    \E i \in 0..(Len(s) - Len(sub)) : SubSeq(s, i + 1, i + Len(sub)) = sub

RECURSIVE Strip(_)
\* int() ignores surrounding white space
Strip(s) ==
    IF s = <<>> THEN s
    ELSE IF s[1] = " " THEN Strip(Tail(s))
    ELSE IF s[Len(s)] = " " THEN Strip(SubSeq(s, 1, Len(s) - 1))
    ELSE s

\* the digits of a literal, its sign removed
Unsigned(s) == IF s # <<>> /\ s[1] \in {"+", "-"} THEN Tail(s) ELSE s

\* whether int(tok) returns (TRUE) or raises ValueError (FALSE)
IsIntLiteral(tok) ==
    LET body == Unsigned(Strip(tok))
    IN  body # <<>> /\ \A i \in 1..Len(body) : IsDigit(body[i])

RECURSIVE DigitsValue(_)
DigitsValue(s) ==
    IF s = <<>> THEN 0
    ELSE DigitsValue(SubSeq(s, 1, Len(s) - 1)) * 10 + DigitVal(s[Len(s)])

\* int(tok) of Python, for a token that is an integer literal
int(tok) ==
    LET s == Strip(tok)
    IN  IF s[1] = "-" THEN 0 - DigitsValue(Unsigned(s))
        ELSE DigitsValue(Unsigned(s))

RECURSIVE StrNat(_)
StrNat(n) ==
    IF n < 10 THEN <<Digits[n + 1]>>
    ELSE StrNat(n \div 10) \o <<Digits[(n % 10) + 1]>>

\* str(n) of Python on an integer
str(n) == IF n < 0 THEN <<"-">> \o StrNat(0 - n) ELSE StrNat(n)

(* ------------------------------ tokens -------------------------------- *)
DirFlag   == <<"-", "d", "i", "r">>
PrFlag    == <<"-", "p", "r">>
IFlag     == <<"-", "i">>
FpsFlag   == <<"-", "f", "p", "s">>
TFlag     == <<"-", "t">>
EFlag     == <<"-", "e">>
BrdMarker == <<"-", "b", "r", "d">>
BrdoFlag  == <<"-", "b", "r", "d", "o">>
PreviewPath ==
    <<"/", "v", "a", "r", "/", "w", "w", "w", "/",
      "p", "r", "e", "v", "i", "e", "w", ".", "p", "n", "g">>
Raspistill == <<"r", "a", "s", "p", "i", "s", "t", "i", "l", "l">>
Cp == <<"c", "p">>
OFlag == <<"-", "o">>

\* the flags that pop a second token as their value
ValueFlags == {DirFlag, PrFlag, IFlag, FpsFlag, TFlag, EFlag}
\* the value flags whose value goes through int()
IntFlags == {IFlag, FpsFlag, TFlag}
(* --------------------------- class Session ---------------------------- *)
\* the defaults set before the argument loop
NewSession ==
    [interval |-> 6, fps |-> 24, directory |-> <<".">>,
     name |-> <<"f", "r", "a", "m", "e">>, t |-> 1,
     e |-> <<".", "p", "n", "g">>, params |-> <<>>,
     recording |-> TRUE, broadcasting |-> FALSE, framecount |-> 0,
     fileprefix |-> <<>>, raised |-> "none"]

\* an exception leaving the constructor
Raise(self, what) == [self EXCEPT !.raised = what]

\* Assign that also hands the popped value on to raspistill
AssignForwarding(self, flag, val) ==
    LET fwd == [self EXCEPT !.params = Append(@, val)]
    IN  CASE flag = DirFlag -> [fwd EXCEPT !.directory = val]
          [] flag = PrFlag  -> [fwd EXCEPT !.name = val]
          [] flag = IFlag   -> [fwd EXCEPT !.interval = int(val)]
          [] flag = FpsFlag -> [fwd EXCEPT !.fps = int(val)]
          [] flag = TFlag   -> [fwd EXCEPT !.t = int(val)]
          [] flag = EFlag   -> [fwd EXCEPT !.e = <<".">> \o val]

\* Assign that keeps a field once it differs from its default
AssignOnce(self, flag, val) ==
    CASE flag = DirFlag ->
           IF self.directory = NewSession.directory
           THEN [self EXCEPT !.directory = val] ELSE self
      [] flag = PrFlag ->
           IF self.name = NewSession.name
           THEN [self EXCEPT !.name = val] ELSE self
      [] flag = IFlag ->
           IF self.interval = NewSession.interval
           THEN [self EXCEPT !.interval = int(val)] ELSE self
      [] flag = FpsFlag ->
           IF self.fps = NewSession.fps
           THEN [self EXCEPT !.fps = int(val)] ELSE self
      [] flag = TFlag ->
           IF self.t = NewSession.t
           THEN [self EXCEPT !.t = int(val)] ELSE self
      [] flag = EFlag ->
           IF self.e = NewSession.e
           THEN [self EXCEPT !.e = <<".">> \o val] ELSE self

\* Assign that also reads the popped value as a broadcast flag
AssignReadingValue(self, flag, val) ==
    LET set == CASE flag = DirFlag -> [self EXCEPT !.directory = val]
                 [] flag = PrFlag  -> [self EXCEPT !.name = val]
                 [] flag = IFlag   -> [self EXCEPT !.interval = int(val)]
                 [] flag = FpsFlag -> [self EXCEPT !.fps = int(val)]
                 [] flag = TFlag   -> [self EXCEPT !.t = int(val)]
                 [] flag = EFlag   -> [self EXCEPT !.e = <<".">> \o val]
    IN  IF Contains(BrdMarker, val)
        THEN [set EXCEPT !.broadcasting = TRUE,
                         !.recording = IF val = BrdoFlag THEN FALSE ELSE @]
        ELSE set

\* the assignment made by the branch of a value flag, given the popped value
Assign(self, flag, val) ==
    CASE flag = DirFlag -> [self EXCEPT !.directory = val]
      [] flag = PrFlag  -> [self EXCEPT !.name = val]
      [] flag = IFlag   -> [self EXCEPT !.interval = int(val)]
      [] flag = FpsFlag -> [self EXCEPT !.fps = int(val)]
      [] flag = TFlag   -> [self EXCEPT !.t = int(val)]
      [] flag = EFlag   -> [self EXCEPT !.e = <<".">> \o val]

\* Broadcast in which -brdo switches recording off without switching
\* broadcasting on
BroadcastOnlyAlone(self, tok) ==
    IF tok = BrdoFlag THEN [self EXCEPT !.recording = FALSE]
    ELSE [self EXCEPT !.broadcasting = TRUE]

\* Broadcast in which every token but the plain "-brd" switches recording off
BroadcastOnlyUnlessPlain(self, tok) ==
    [self EXCEPT !.broadcasting = TRUE,
                 !.recording = IF tok # BrdMarker THEN FALSE ELSE @]

\* Broadcast in which -brdo counts only as the first broadcast token
BroadcastFirstOnly(self, tok) ==
    [self EXCEPT !.broadcasting = TRUE,
                 !.recording = IF tok = BrdoFlag /\ ~self.broadcasting
                               THEN FALSE ELSE @]

\* Broadcast with recording recomputed from every broadcast token, so that
\* a later "-brd" switches recording on again
BroadcastRecomputed(self, tok) ==
    [self EXCEPT !.broadcasting = TRUE, !.recording = (tok # BrdoFlag)]

\* the branch of a token that contains "-brd"
Broadcast(self, tok) ==
    [self EXCEPT !.broadcasting = TRUE,
                 !.recording = IF tok = BrdoFlag THEN FALSE ELSE @]

\* the else branch: the token is kept for raspistill
Forward(self, tok) == [self EXCEPT !.params = Append(@, tok)]

RECURSIVE ParseArgs(_, _)
\* the loop "while len(args) > 0", one iteration per unfolding
ParseArgs(self, args) ==
    IF Len(args) = 0 THEN self
    ELSE IF args[1] \in ValueFlags THEN
        IF Len(args) < 2 THEN Raise(self, "IndexError")
        ELSE IF args[1] \in IntFlags /\ ~IsIntLiteral(args[2])
            THEN Raise(self, "ValueError")
        ELSE ParseArgs(Assign(self, args[1], args[2]),
                       SubSeq(args, 3, Len(args)))
    ELSE IF Contains(BrdMarker, args[1]) THEN
        ParseArgs(Broadcast(self, args[1]), Tail(args))
    ELSE ParseArgs(Forward(self, args[1]), Tail(args))

\* AppendDelay with the pair put in front of the forwarded tokens
PrependDelay(self) == [self EXCEPT !.params = <<TFlag, str(self.t)>> \o @]

\* self.params += ["-t", str(self.t)]
AppendDelay(self) == [self EXCEPT !.params = @ \o <<TFlag, str(self.t)>>]

\* self.fileprefix = self.directory + "/" + self.name
FilePrefix(self) ==
    [self EXCEPT !.fileprefix = self.directory \o <<"/">> \o self.name]

\* Session that swallows the exception of the argument loop and goes on with
\* what was parsed so far
SessionLenient(args) ==
    FilePrefix(AppendDelay(Raise(ParseArgs(NewSession, Tail(args)), "none")))

\* Session(argv): the constructed object, or the exception in .raised
Session(args) ==
    LET parsed == ParseArgs(NewSession, Tail(args))
    IN  IF parsed.raised # "none" THEN parsed
        ELSE FilePrefix(AppendDelay(parsed))

\* the value of the variable session while no object exists
NoSession == Raise(NewSession, "unborn")
(* --------------------------- command lines ---------------------------- *)
ProgName == <<"p", "i", "m", "e", "n", "t", "o", ".", "p", "y">>

\* the tokens command lines are built from: every flag of the program, a
\* token that merely contains "-brd", two integers, a non-number and a
\* raspistill option
Tokens ==
    {DirFlag, PrFlag, IFlag, FpsFlag, TFlag, EFlag, BrdMarker, BrdoFlag,
     <<"-", "b", "r", "d", "x">>, <<"5">>, <<"0", "7">>, <<"x">>,
     <<"-", "w">>}

\* the tokens of the generated command lines of the whole-program
\* specification: the three integer flags, both broadcast flags, an
\* integer and a non-number
SchedTokens ==
    {IFlag, FpsFlag, TFlag, BrdMarker, BrdoFlag, <<"5">>, <<"x">>}

\* every list of at most n tokens of T
ArgLists(T, n) == UNION {[1..k -> T] : k \in 0..n}

\* the command line of the README-style example: a ten-token session
RoundTripArgs ==
    <<DirFlag, <<"/", "x">>, PrFlag, <<"s", "h", "o", "t">>, IFlag,
      <<"1", "0">>, FpsFlag, <<"3", "0">>, EFlag, <<"j", "p", "g">>>>

(* --------------------------- send_command ----------------------------- *)
\* FileName numbered with the counter itself
FileNameFromZero(s) == s.fileprefix \o str(s.framecount) \o s.e

\* filename = session.fileprefix + str(session.framecount + 1) + session.e
FileName(s) == s.fileprefix \o str(s.framecount + 1) \o s.e

\* the raspistill command of this iteration
CaptureCommand(s) ==
    IF s.recording
    THEN <<Raspistill, OFlag, FileName(s)>> \o s.params
    ELSE <<Raspistill, OFlag, PreviewPath>> \o s.params

\* the cp command of the broadcast copy
CopyCommand(s) == <<Cp, FileName(s), PreviewPath>>

\* NeedsCopy that copies whenever the session broadcasts
NeedsCopyWheneverBroadcasting(s) == s.broadcasting

\* whether send_command makes a second call
NeedsCopy(s) == s.recording /\ s.broadcasting

ClearCommand == <<<<"c", "l", "e", "a", "r">>>>

\* what subprocess.call can do: return the exit status, or raise OSError
\* when the program cannot be started
CallOutcomes == {"0", "1", "OSError"}

(* ------------------------- the progress line -------------------------- *)
\* the significand bits of a Python float (IEEE 754 double)
Precision == 53

\* a non-negative float as a binary fixed-point number: the integer part and
\* the bits after the point
Fixed(i, bits) == [int |-> i, frac |-> bits]

RECURSIVE BitLen(_)
\* the number of bits of a natural number
BitLen(q) == IF q = 0 THEN 0 ELSE 1 + BitLen(q \div 2)

RECURSIVE Pow2(_)
Pow2(k) == IF k = 0 THEN 1 ELSE 2 * Pow2(k - 1)

RECURSIVE Pow2Mod(_, _)
\* 2^k modulo f, by repeated squaring
Pow2Mod(k, f) ==
    IF k = 0 THEN 1 % f
    ELSE LET h == Pow2Mod(k \div 2, f)
         IN  IF k % 2 = 0 THEN (h * h) % f ELSE (2 * ((h * h) % f)) % f

\* the remainder of the long division r / f after k bits
RemAfter(r, f, k) == (r * Pow2Mod(k, f)) % f

\* the first k bits after the point of r / f, for 0 <= r < f
FracBits(r, f, k) ==
    [i \in 1..k |-> IF 2 * RemAfter(r, f, i - 1) >= f THEN 1 ELSE 0]

RECURSIVE LeadZeros(_, _)
\* the zero bits of r / f between the point and its first one bit, 0 < r < f
LeadZeros(r, f) == IF 2 * r >= f THEN 0 ELSE 1 + LeadZeros(2 * r, f)

\* the zero bits before the first one bit of a bit string
LeadZeroBits(b) ==
    IF \A i \in 1..Len(b) : b[i] = 0 THEN Len(b)
    ELSE (CHOOSE i \in 1..Len(b) :
              b[i] = 1 /\ \A j \in 1..(i - 1) : b[j] = 0) - 1

\* one unit in the last place added to a bit string, with the carry out:
\* the last zero bit becomes one and the ones after it become zero
IncrBits(b) ==
    LET zeros == {i \in 1..Len(b) : b[i] = 0}
        p == IF zeros = {} THEN 0
             ELSE CHOOSE i \in zeros : \A j \in zeros : j <= i
    IN  [bits |-> [i \in 1..Len(b) |->
                      IF i < p THEN b[i] ELSE IF i = p THEN 1 ELSE 0],
         carry |-> IF p = 0 THEN 1 ELSE 0]

\* x rounded up by one unit in its last place
RoundUp(x) ==
    LET r == IncrBits(x.frac) IN Fixed(x.int + r.carry, r.bits)

\* float(n) / f: the quotient rounded to Precision significant bits, ties
\* to even
FloatDiv(n, f) ==
    LET q == n \div f
        r == n % f
    IN  IF r = 0 THEN Fixed(q, <<>>)
        ELSE LET k == IF q > 0 THEN Precision - BitLen(q)
                      ELSE LeadZeros(r, f) + Precision
                 bits == FracBits(r, f, k)
                 rem == RemAfter(r, f, k)
                 up == 2 * rem > f \/ (2 * rem = f /\ bits[k] = 1)
             IN  IF up THEN RoundUp(Fixed(q, bits)) ELSE Fixed(q, bits)

\* x - int(x): exact, the bits after the point
FloatFrac(x) == Fixed(0, x.frac)

\* bit i of a bit string, zero beyond its end
BitAt(b, i) == IF i <= Len(b) THEN b[i] ELSE 0

\* the eight bits of b from position i on, as a number
Octet(b, i) ==
    128 * BitAt(b, i) + 64 * BitAt(b, i + 1) + 32 * BitAt(b, i + 2)
        + 16 * BitAt(b, i + 3) + 8 * BitAt(b, i + 4) + 4 * BitAt(b, i + 5)
        + 2 * BitAt(b, i + 6) + BitAt(b, i + 7)

RECURSIVE OctetTotal(_, _, _)
\* the octet at position i times c, plus what the octets after it carry over
OctetTotal(b, c, i) ==
    IF i > Len(b) THEN 0
    ELSE Octet(b, i) * c + (OctetTotal(b, c, i + 8) \div 256)

\* a bit string times the natural number c: the bits of the product after
\* the point, and the carry into the integer part
MulBits(b, c) ==
    [bits |-> [i \in 1..Len(b) |->
                  LET o == i - ((i - 1) % 8)
                  IN  (OctetTotal(b, c, o) \div Pow2(o + 7 - i)) % 2],
     carry |-> OctetTotal(b, c, 1) \div 256]

\* a fixed-point number rounded to Precision significant bits, ties to even
RoundToPrecision(x) ==
    LET k == IF x.int > 0 THEN Precision - BitLen(x.int)
             ELSE LeadZeroBits(x.frac) + Precision
    IN  IF Len(x.frac) <= k THEN x
        ELSE LET kept == SubSeq(x.frac, 1, k)
                 last == IF k = 0 THEN x.int % 2 ELSE kept[k]
                 sticky == \E i \in (k + 2)..Len(x.frac) : x.frac[i] = 1
                 up == x.frac[k + 1] = 1 /\ (sticky \/ last = 1)
             IN  IF up THEN RoundUp(Fixed(x.int, kept)) ELSE Fixed(x.int, kept)

\* x * c for a float x and a small natural number c
FloatTimes(x, c) ==
    LET m == MulBits(x.frac, c)
    IN  RoundToPrecision(Fixed(x.int * c + m.carry, m.bits))

\* int(x), and the %d conversion of a float: the fraction is dropped
Trunc(x) == x.int

\* "%02d" % n for a natural number n
Pad2(n) == IF n < 10 THEN <<"0">> \o str(n) ELSE str(n)

\* time.strftime("%H:%M:%S", time.gmtime(secs)): the time of day of the
\* moment secs seconds after the epoch
ClockString(secs) ==
    Pad2((secs \div 3600) % 24) \o <<":">> \o Pad2((secs \div 60) % 60)
        \o <<":">> \o Pad2(secs % 60)

\* elapsed = time.strftime("%H:%M:%S", time.gmtime(time.time()-starttime))
Elapsed(t, start) == ClockString(t - start)

\* vidsecs = float(session.framecount)/session.fps
VidSecs(s) == FloatDiv(s.framecount, s.fps)

\* vidmsecs = str("%02d" % ((vidsecs - int(vidsecs)) * 100))
VidMsecs(s) == Pad2(Trunc(FloatTimes(FloatFrac(VidSecs(s)), 100)))

\* length = time.strftime("%H:%M:%S.", time.gmtime(vidsecs)) + vidmsecs
Length(s) == ClockString(Trunc(VidSecs(s))) \o <<".">> \o VidMsecs(s)

(* ------------------------------ record -------------------------------- *)
\* SleepTime without the time the commands took
SleepTimeUncompensated(interval, elapsed) == interval

\* the argument of time.sleep
SleepTime(interval, elapsed) == interval - elapsed

\* an uncaught exception: traceback, exit status 1
Crash(what) ==
    /\ pc' = "crashed"
    /\ exc' = what
    /\ exitStatus' = 1

\* Exiting with the interrupt reported as a failure of the script
ExitingAsError ==
    /\ pc' = "stopped"
    /\ exc' = "KeyboardInterrupt"
    /\ exitStatus' = 1
    /\ farewells' = farewells + 1

\* except KeyboardInterrupt: print "\nExiting...", then the script ends
Exiting ==
    /\ pc' = "stopped"
    /\ exc' = "KeyboardInterrupt"
    /\ exitStatus' = 0
    /\ farewells' = farewells + 1

\* AfterSend that counts only the frames that were recorded
AfterSendCountingRecorded(t) ==
    /\ session' = [session EXCEPT
                      !.framecount = IF session.recording THEN @ + 1 ELSE @]
    /\ sleepArg' = session.interval - (t - routinestart')
    /\ IF sleepArg' < 0
       THEN Crash("IOError")
       ELSE pc' = "sleep" /\ UNCHANGED <<exc, exitStatus>>

\* the rest of the loop body once send_command has returned at time t:
\* the counter, the progress line and the call of time.sleep, which raises
\* IOError (EINVAL) for a negative argument
AfterSend(t) ==
    /\ session' = [session EXCEPT !.framecount = @ + 1]
    /\ sleepArg' = SleepTime(session.interval, t - routinestart')
    /\ IF sleepArg' < 0
       THEN Crash("IOError")
       ELSE pc' = "sleep" /\ UNCHANGED <<exc, exitStatus>>

\* stdout.write("\r%d\t%s\t%s" % (session.framecount, elapsed, length)):
\* the line on the screen once the loop body has reached time.sleep; the
\* clock has not moved since the line was written
ProgressShown == pc = "sleep" \/ (pc = "crashed" /\ exc = "IOError")
Progress ==
    [frames |-> session.framecount,
     elapsed |-> Elapsed(now, starttime),
     length |-> Length(session)]

Running == pc \in {"loop", "copy", "sleep"}
Idle == pc \in {"init", "parsed"}

TypeOK ==
    /\ pc \in {"init", "parsed", "loop", "copy", "sleep", "stopped", "crashed"}
    /\ exitStatus \in {-1, 0, 1}
    /\ farewells \in 0..1
    /\ iteration \in 0..(budget + 1)
    /\ retcode \in {-1, 0, 1}

InitState ==
    /\ session = NoSession
    /\ pc = "init"
    /\ exc = "none"
    /\ exitStatus = -1
    /\ now = 0
    /\ starttime = 0
    /\ routinestart = 0
    /\ sleepArg = 0
    /\ issued = <<>>
    /\ retcode = -1
    /\ iteration = 0
    /\ farewells = 0

Init ==
    /\ argv \in {<<ProgName>> \o a :
                    a \in ArgLists(SchedTokens, MaxSchedArgs)
                          \cup ArgLists(Tokens, 1) \cup {RoundTripArgs}}
    /\ budget = MaxFrames
    /\ InitState

\* record(Session(argv)), the evaluation of the argument
Construct ==
    /\ pc = "init"
    /\ LET s == Session(argv)
       IN  IF s.raised = "none"
           THEN session' = s /\ pc' = "parsed" /\ UNCHANGED <<exc, exitStatus>>
           ELSE UNCHANGED session /\ Crash(s.raised)
    /\ UNCHANGED <<argv, budget, now, starttime, routinestart, sleepArg, issued,
                   retcode, iteration, farewells>>

\* record(): starttime, call("clear") and the banner
RecordStart ==
    /\ pc = "parsed"
    /\ starttime' = now
    /\ issued' = Append(issued, ClearCommand)
    /\ \E lat \in 0..MaxClearLatency, out \in CallOutcomes :
          IF out = "OSError"
          THEN Crash("OSError") /\ retcode' = -1 /\ UNCHANGED now
          ELSE /\ pc' = "loop"
               /\ now' = now + lat
               /\ retcode' = IF out = "0" THEN 0 ELSE 1
               /\ UNCHANGED <<exc, exitStatus>>
    /\ UNCHANGED <<argv, budget, session, routinestart, sleepArg, iteration, farewells>>

\* the top of the loop body and the raspistill call of send_command
SendCapture ==
    /\ pc = "loop"
    /\ session.framecount < budget
    /\ routinestart' = now
    /\ iteration' = iteration + 1
    /\ issued' = Append(issued, CaptureCommand(session))
    /\ \E lat \in 0..MaxLatency, out \in CallOutcomes :
          IF out = "OSError"
          THEN /\ Crash("OSError")
               /\ retcode' = -1
               /\ UNCHANGED <<now, session, sleepArg>>
          ELSE /\ now' = now + lat
               /\ retcode' = IF out = "0" THEN 0 ELSE 1
               /\ IF NeedsCopy(session)
                  THEN /\ pc' = "copy"
                       /\ UNCHANGED <<session, sleepArg, exc, exitStatus>>
                  ELSE AfterSend(now')
    /\ UNCHANGED <<argv, budget, starttime, farewells>>

\* the cp call of send_command, and the rest of the loop body
SendCopy ==
    /\ pc = "copy"
    /\ issued' = Append(issued, CopyCommand(session))
    /\ UNCHANGED routinestart
    /\ \E lat \in 0..MaxLatency, out \in CallOutcomes :
          IF out = "OSError"
          THEN /\ Crash("OSError")
               /\ retcode' = -1
               /\ UNCHANGED <<now, session, sleepArg>>
          ELSE /\ now' = now + lat
               /\ retcode' = IF out = "0" THEN 0 ELSE 1
               /\ AfterSend(now')
    /\ UNCHANGED <<argv, budget, starttime, iteration, farewells>>

\* time.sleep returns
Wake ==
    /\ pc = "sleep"
    /\ now' = now + sleepArg
    /\ pc' = "loop"
    /\ UNCHANGED <<argv, budget, session, exc, exitStatus, starttime, routinestart,
                   sleepArg, issued, retcode, iteration, farewells>>

\* CTRL-C while time.sleep blocks
InterruptSleep ==
    /\ pc = "sleep"
    /\ Exiting
    /\ UNCHANGED <<argv, budget, session, now, starttime, routinestart, sleepArg,
                   issued, retcode, iteration>>

\* CTRL-C while the raspistill call blocks
InterruptCapture ==
    /\ pc = "loop"
    /\ routinestart' = now
    /\ iteration' = iteration + 1
    /\ issued' = Append(issued, CaptureCommand(session))
    /\ Exiting
    /\ retcode' = -1
    /\ UNCHANGED <<argv, budget, session, now, starttime, sleepArg>>

\* CTRL-C while the cp call blocks
InterruptCopy ==
    /\ pc = "copy"
    /\ issued' = Append(issued, CopyCommand(session))
    /\ Exiting
    /\ retcode' = -1
    /\ UNCHANGED <<argv, budget, session, now, starttime, routinestart, sleepArg,
                   iteration>>

\* CTRL-C before the loop is entered
InterruptStartup ==
    /\ Idle
    /\ Exiting
    /\ UNCHANGED <<argv, budget, session, now, starttime, routinestart, sleepArg,
                   issued, retcode, iteration>>

Next ==
    \/ Construct
    \/ RecordStart
    \/ SendCapture
    \/ SendCopy
    \/ Wake
    \/ InterruptSleep
    \/ InterruptCapture
    \/ InterruptCopy
    \/ InterruptStartup

Spec == Init /\ [][Next]_vars

(* ---------------- the constructor alone, on every command line -------- *)
InitParse ==
    /\ argv \in {<<ProgName>> \o a : a \in ArgLists(Tokens, MaxArgs)}
    /\ budget = MaxFrames
    /\ InitState

NextParse == Construct

SpecParse == InitParse /\ [][NextParse]_vars
(* ------------- long runs: a day and more of frames, few sessions ------ *)
\* the command lines of the long runs: the defaults, broadcasting, five
\* frames per second, and one frame per hour
LongRunArgs ==
    {<<>>, <<BrdMarker>>, <<FpsFlag, <<"5">>>>,
     <<IFlag, <<"3", "6", "0", "0">>>>}

InitLong ==
    /\ argv \in {<<ProgName>> \o a : a \in LongRunArgs}
    /\ budget = MaxLongFrames
    /\ InitState

SpecLong == InitLong /\ [][Next]_vars

(* =============================== claims =============================== *)
Max(a, b) == IF a >= b THEN a ELSE b

\* the raspistill commands among the first n issued commands
CapturesUpTo(n) == {j \in 1..n : issued[j][1] = Raspistill}

\* C1: the sleep that ends an iteration lasts max(0, interval - latency),
\* which is never negative and never more than the interval, whatever the
\* latency of the dispatch.
C1_SleepClamped ==
    (iteration > 0 /\ (pc = "sleep" \/ exc = "IOError")) =>
        /\ sleepArg = Max(0, session.interval - (now - routinestart))
        /\ sleepArg >= 0
        /\ sleepArg <= session.interval

\* C2: when the capture command or the broadcast copy of iteration N fails
\* (non-zero exit status, or it cannot be started), the script is aborted
\* with a non-zero status and the frame counter still N-1.
C2_DispatchFailureAborts ==
    (iteration > 0 /\ (retcode = 1 \/ exc = "OSError")) =>
        /\ pc = "crashed"
        /\ exitStatus = 1
        /\ session.framecount = iteration - 1

\* C3: CTRL-C during the sleep of iteration N stops the script with status
\* 0 and the frame counter N, prints the farewell line once and issues no
\* further command; once stopped, nothing is issued or printed any more.
C3_InterruptInSleep ==
    [][/\ (pc = "sleep" /\ pc' = "stopped") =>
            /\ exitStatus' = 0
            /\ session'.framecount = iteration
            /\ iteration' = iteration
            /\ farewells = 0 /\ farewells' = 1
            /\ issued' = issued
       /\ pc = "stopped" =>
            /\ pc' = "stopped"
            /\ issued' = issued
            /\ farewells' = farewells
            /\ exitStatus' = exitStatus]_vars

\* C3 witness: stopped by CTRL-C in the sleep of the second iteration
C3_Witness ==
    /\ pc = "stopped"
    /\ exc = "KeyboardInterrupt"
    /\ iteration = 2
    /\ session.framecount = 2
    /\ farewells = 1
    /\ exitStatus = 0
(* ------------------- the command line, read by position --------------- *)
\* the tokens after argv[0]
Args == Tail(argv)

RECURSIVE FlagPos(_, _)
\* whether token i is read as a flag: it is the first token, or the token
\* before it is not a value flag read as a flag
FlagPos(a, i) ==
    IF i = 1 THEN TRUE
    ELSE ~(FlagPos(a, i - 1) /\ a[i - 1] \in ValueFlags)

\* the positions where flag f is read as a flag
FlagAt(a, f) == {i \in 1..Len(a) : FlagPos(a, i) /\ a[i] = f}

\* a token read as a flag that the program knows
Recognized(tok) == tok \in ValueFlags \/ Contains(BrdMarker, tok)

\* the constructor returned a session
Parsed == pc = "parsed"

\* C4: whenever -brdo is read as a flag, the session does not record and
\* does broadcast, wherever -brdo stands among other broadcast tokens.
C4_BroadcastOnlyWins ==
    (Parsed /\ FlagAt(Args, BrdoFlag) # {}) =>
        (session.recording = FALSE /\ session.broadcasting = TRUE)

\* C4 witness: -brdo read as a flag, with -brd after it and another
\* broadcast token before it
C4_Witness ==
    /\ Parsed
    /\ \E i \in FlagAt(Args, BrdoFlag) :
          /\ \E j \in FlagAt(Args, BrdMarker) : j > i
          /\ \E k \in 1..(i - 1) :
                FlagPos(Args, k) /\ Contains(BrdMarker, Args[k])
    /\ ~session.recording

\* the positions p where params holds -t followed by str(t)
DelayPairs(s) ==
    {p \in 1..(Len(s.params) - 1) :
        s.params[p] = TFlag /\ s.params[p + 1] = str(s.t)}

\* C5: params ends with the pair -t, str(t), and holds that pair exactly
\* once, whether or not the command line gave -t.
C5_DelayPairOnceLast ==
    Parsed =>
        /\ Len(session.params) >= 2
        /\ DelayPairs(session) = {Len(session.params) - 1}

\* C5 witness: the command line gives -t 07 and forwards a token, and the
\* session forwards it followed by -t 7
C5_Witness ==
    /\ Parsed
    /\ \E i \in FlagAt(Args, TFlag) : Args[i + 1] = <<"0", "7">>
    /\ session.t = 7
    /\ Len(session.params) = 3
    /\ session.params[3] = <<"7">>
RECURSIVE Unrecognized(_, _)
\* the tokens among the first n that are read as flags and not recognized,
\* in the order of the command line
Unrecognized(a, n) ==
    IF n = 0 THEN <<>>
    ELSE Unrecognized(a, n - 1)
         \o (IF FlagPos(a, n) /\ ~Recognized(a[n]) THEN <<a[n]>> ELSE <<>>)

\* params without the pair appended at the end
Forwarded(s) == SubSeq(s.params, 1, Len(s.params) - 2)

\* C6 (as stated): params never holds a recognized flag.
C6_NoRecognizedFlagAtAll ==
    Parsed => \A p \in 1..Len(session.params) : ~Recognized(session.params[p])

\* C6 (amended): apart from the pair -t, str(t) appended at its end, params
\* holds no recognized flag and no value consumed by one: it is exactly the
\* tokens read as flags and not recognized, in their order.
C6_ForwardedOnlyUnrecognized ==
    Parsed =>
        /\ Forwarded(session) = Unrecognized(Args, Len(Args))
        /\ \A p \in 1..Len(Forwarded(session)) :
              ~Recognized(Forwarded(session)[p])

\* C6 witness: a value flag with its value, a broadcast token and a
\* raspistill option on one command line; only the option is forwarded
C6_Witness ==
    /\ Parsed
    /\ \E f \in ValueFlags : FlagAt(Args, f) # {}
    /\ \E i \in 1..Len(Args) : FlagPos(Args, i) /\ Contains(BrdMarker, Args[i])
    /\ Forwarded(session) = << <<"-", "w">> >>

RECURSIVE Groups(_)
\* the command line cut into groups: a value flag with its value, or a
\* single token
Groups(a) ==
    IF a = <<>> THEN <<>>
    ELSE IF a[1] \in ValueFlags /\ Len(a) >= 2
        THEN <<SubSeq(a, 1, 2)>> \o Groups(SubSeq(a, 3, Len(a)))
        ELSE <<<<a[1]>>>> \o Groups(Tail(a))

RECURSIVE Flatten(_)
Flatten(gs) == IF gs = <<>> THEN <<>> ELSE gs[1] \o Flatten(Tail(gs))

RECURSIVE PermSeqs(_)
\* every ordering of the set S, as a sequence
PermSeqs(S) ==
    IF S = {} THEN {<<>>}
    ELSE UNION {{<<x>> \o q : q \in PermSeqs(S \ {x})} : x \in S}

\* a group that is a forwarded token
IsPass(g) == Len(g) = 1 /\ ~Recognized(g[1])

\* the orderings of the groups that keep the forwarded tokens in order
GroupOrders(gs) ==
    {f \in PermSeqs(1..Len(gs)) :
        \A i, j \in 1..Len(gs) :
            (i < j /\ IsPass(gs[f[i]]) /\ IsPass(gs[f[j]])) => f[i] < f[j]}

\* the command lines with the same groups in another order
Reorderings(a) ==
    LET gs == Groups(a)
    IN  {Flatten([i \in 1..Len(gs) |-> gs[f[i]]]) : f \in GroupOrders(gs)}

\* no recognized flag is read twice
OncePerFlag(a) ==
    \A i, j \in 1..Len(a) :
        (i < j /\ FlagPos(a, i) /\ FlagPos(a, j) /\ Recognized(a[i]))
            => a[i] # a[j]

\* C7: a command line on which every recognized flag is read once, with a
\* valid value, gives the same session in whatever order its groups stand
\* (forwarded tokens keeping their order), and params holds the
\* unrecognized tokens in the order of the command line.
C7_OrderIndependent ==
    (Parsed /\ OncePerFlag(Args)) =>
        /\ \A b \in Reorderings(Args) : Session(<<ProgName>> \o b) = session
        /\ Forwarded(session) = Unrecognized(Args, Len(Args))

\* C7 witness: two value flags, or a value flag and both broadcast flags
\* with a forwarded token, given in an order that is not the only one
C7_Witness ==
    /\ Parsed
    /\ OncePerFlag(Args)
    /\ Len(Groups(Args)) >= 3
    /\ FlagAt(Args, BrdoFlag) # {}
    /\ FlagAt(Args, BrdMarker) # {}
    /\ \E f \in ValueFlags : FlagAt(Args, f) # {}
    /\ Cardinality(Reorderings(Args)) = 6

\* the value a flag stores for a value token
Converted(f, val) ==
    CASE f \in IntFlags -> int(val)
      [] f = EFlag -> <<".">> \o val
      [] OTHER -> val

\* the field a flag stores into
Field(s, f) ==
    CASE f = DirFlag -> s.directory
      [] f = PrFlag -> s.name
      [] f = IFlag -> s.interval
      [] f = FpsFlag -> s.fps
      [] f = TFlag -> s.t
      [] f = EFlag -> s.e

First(S) == CHOOSE i \in S : \A j \in S : i <= j
Last(S) == CHOOSE i \in S : \A j \in S : i >= j

\* C8 (as stated): of several occurrences of a value flag the first wins.
C8_FirstWins ==
    Parsed =>
        \A f \in ValueFlags :
            Cardinality(FlagAt(Args, f)) > 1 =>
                Field(session, f) = Converted(f, Args[First(FlagAt(Args, f)) + 1])

\* C8 (amended): of several occurrences of a value flag the last one wins:
\* the field holds the value given with the last occurrence.
C8_LastWins ==
    Parsed =>
        \A f \in ValueFlags :
            Cardinality(FlagAt(Args, f)) > 1 =>
                Field(session, f) = Converted(f, Args[Last(FlagAt(Args, f)) + 1])

\* C8 witness: -i 5 -i 07 leaves the interval 7
C8_Witness ==
    /\ Parsed
    /\ Args = <<IFlag, <<"5">>, IFlag, <<"0", "7">>>>
    /\ session.interval = 7
\* a token that int() cannot read: it holds a character that is neither a
\* digit, a sign nor a blank
NonNumeric(tok) ==
    \E i \in 1..Len(tok) : ~IsDigit(tok[i]) /\ tok[i] \notin {"+", "-", " "}

\* a value flag read as a flag at the end of the command line
MissingValue(a) ==
    \E i \in 1..Len(a) : FlagPos(a, i) /\ a[i] \in ValueFlags /\ i = Len(a)

\* -i, -fps or -t read as a flag and followed by a token that is no number
BadNumber(a) ==
    \E i \in 1..(Len(a) - 1) :
        FlagPos(a, i) /\ a[i] \in IntFlags /\ NonNumeric(a[i + 1])

\* C9: a value flag without a value, or a non-numeric value after -i, -fps
\* or -t, makes the constructor raise (IndexError for the missing value,
\* ValueError for the bad number): the script ends with status 1, record()
\* is never entered and no command is ever issued.
C9_ParseErrorAbortsBeforeLoop ==
    (MissingValue(Args) \/ BadNumber(Args)) =>
        /\ ~Running
        /\ pc # "parsed"
        /\ issued = <<>>
        /\ iteration = 0
        /\ session = NoSession
        /\ pc = "crashed" =>
              /\ exitStatus = 1
              /\ exc = IF BadNumber(Args) THEN "ValueError" ELSE "IndexError"

\* C9 witness: a command line that ends in a value flag after another
\* token has crashed the constructor
C9_Witness ==
    /\ MissingValue(Args)
    /\ Len(Args) >= 2
    /\ pc = "crashed"
    /\ exc = "IndexError"

\* the positions of the raspistill commands among the issued commands
Captures == CapturesUpTo(Len(issued))

\* the output path of issued command j
OutputPath(j) == issued[j][3]

\* C10: when recording, the n-th capture of a run writes to
\* directory/name<n>extension, so the paths are numbered 1, 2, 3, ... in
\* order; with -dir /x -pr shot -i 10 -fps 30 -e jpg the third one is
\* /x/shot3.jpg.
C10_FramePathsNumbered ==
    (session # NoSession /\ session.recording) =>
        /\ pc \in {"loop", "sleep"} => session.framecount = Cardinality(Captures)
        /\ \A j \in Captures :
              OutputPath(j) =
                  session.directory \o <<"/">> \o session.name
                      \o str(Cardinality(CapturesUpTo(j))) \o session.e
        /\ (Args = RoundTripArgs /\ Cardinality(Captures) >= 3) =>
              \E j \in Captures :
                  /\ Cardinality(CapturesUpTo(j)) = 3
                  /\ OutputPath(j) =
                        <<"/", "x", "/", "s", "h", "o", "t", "3", ".", "j", "p", "g">>

\* C10 witness: the example session has issued its third capture
C10_Witness ==
    /\ Args = RoundTripArgs
    /\ session.framecount = 3
    /\ Cardinality(Captures) = 3
    /\ OutputPath(Last(Captures)) =
          <<"/", "x", "/", "s", "h", "o", "t", "3", ".", "j", "p", "g">>
\* hours:minutes:seconds of a number of seconds, the hours not wrapped
TotalHMS(secs) ==
    Pad2(secs \div 3600) \o <<":">> \o Pad2((secs \div 60) % 60)
        \o <<":">> \o Pad2(secs % 60)

\* C11: the length shown after an iteration is, for the counter n and f
\* frames per second, floor(n / f) seconds as hours:minutes:seconds, a point
\* and the two digits floor((n mod f) * 100 / f); with f = 24 it is
\* 00:00:01.00 after 24 iterations.
C11_LengthIsExactHundredths ==
    ProgressShown =>
        LET n == session.framecount
            f == session.fps
        IN  /\ Progress.length =
                  TotalHMS(n \div f) \o <<".">> \o Pad2(((n % f) * 100) \div f)
            /\ (n = 24 /\ f = 24) =>
                  Progress.length =
                      <<"0", "0", ":", "0", "0", ":", "0", "1", ".", "0", "0">>

\* C16: the elapsed time shown is the total elapsed time, its hour field
\* the total number of hours, also after 24 hours and more.
C16_ElapsedDoesNotWrap ==
    ProgressShown => Progress.elapsed = TotalHMS(now - starttime)
\* C12: the counter starts at 0, goes up by exactly 1 in each loop iteration,
\* when the dispatch has returned and before the progress line is written,
\* in every mode, and never goes down; every progress line shows the number
\* of iterations whose dispatch has returned.
C12_CounterCountsIterations ==
    /\ session.framecount = 0
    /\ [](ProgressShown => Progress.frames = iteration)
    /\ [][/\ session'.framecount \in
                {session.framecount, session.framecount + 1}
          /\ (session'.framecount = session.framecount + 1)
                <=> (pc \in {"loop", "copy"} /\ ProgressShown')]_vars

\* C12 witness: a broadcast-only session sleeping after its second iteration
C12_Witness ==
    /\ pc = "sleep"
    /\ ~session.recording
    /\ iteration = 2
    /\ session.framecount = 2

\* the path of frame number m
FramePath(m) == session.fileprefix \o str(m) \o session.e

\* C13: the commands of an iteration depend on the mode only: recording
\* without broadcasting, one capture to the frame path; recording and
\* broadcasting, that capture and then a copy of its file to the preview
\* path; broadcast-only, one capture to the preview path and no copy. Every
\* capture carries params.
C13_CommandsFollowMode ==
    session # NoSession =>
        /\ \A j \in 2..Len(issued) :
              IF ~session.recording
              THEN issued[j] = <<Raspistill, OFlag, PreviewPath>> \o session.params
              ELSE IF ~session.broadcasting
              THEN issued[j] =
                      <<Raspistill, OFlag, FramePath(j - 1)>> \o session.params
              ELSE IF j % 2 = 0
              THEN issued[j] =
                      <<Raspistill, OFlag, FramePath(j \div 2)>> \o session.params
              ELSE issued[j] = <<Cp, FramePath((j - 1) \div 2), PreviewPath>>
        /\ pc = "sleep" =>
              Len(issued) - 1 =
                  iteration * (IF session.recording /\ session.broadcasting
                               THEN 2 ELSE 1)

\* C13 witness: a session that records and broadcasts has issued capture,
\* copy, capture, copy
C13_Witness ==
    /\ pc = "sleep"
    /\ session.recording /\ session.broadcasting
    /\ iteration = 2
    /\ Len(issued) = 5
    /\ issued[5][1] = Cp

\* C14: a dispatch that outlasts the interval does not end the run: the
\* loop goes on without sleeping; the run leaves the loop only by CTRL-C or
\* by a command that fails.
C14_OverrunKeepsRunning ==
    /\ (ProgressShown /\ now - routinestart > session.interval) =>
          (pc = "sleep" /\ sleepArg = 0)
    /\ (iteration > 0 /\ pc = "crashed") => exc = "OSError"

\* C15 (as stated): iteration k starts at starttime + (k - 1) * interval.
C15_StartsCountedFromStarttime ==
    iteration >= 1 =>
        routinestart = starttime + (iteration - 1) * session.interval

\* C15 (amended): consecutive iterations start exactly one interval apart,
\* whatever the latencies, so iteration k starts (k - 1) intervals after
\* the first one; the first one starts when the clear command, run after
\* starttime is taken, has returned.
C15_CadenceExact ==
    /\ [](iteration >= 1 =>
            routinestart - starttime - (iteration - 1) * session.interval
                \in 0..MaxClearLatency)
    /\ [][(iteration >= 1 /\ iteration' = iteration + 1) =>
            routinestart' = routinestart + session.interval]_vars

\* C15 witness: the third iteration, begun two intervals after the first,
\* which began a second after starttime; its dispatch took time
C15_Witness ==
    /\ pc = "sleep"
    /\ iteration = 3
    /\ now > routinestart
    /\ routinestart = starttime + 1 + 2 * session.interval

\* C18: every session records or broadcasts, and every iteration begun has
\* issued exactly one capture command.
C18_RecordsOrBroadcasts ==
    session # NoSession =>
        /\ session.recording \/ session.broadcasting
        /\ Cardinality(Captures) = iteration

\* C18 witness: a broadcast-only session in its second iteration
C18_Witness ==
    /\ session # NoSession
    /\ ~session.recording
    /\ session.broadcasting
    /\ iteration = 2
    /\ Cardinality(Captures) = 2
\* the positions where a token containing "-brd" is read as a flag and is
\* not a value flag
BroadcastAt(a) ==
    {i \in 1..Len(a) :
        FlagPos(a, i) /\ a[i] \notin ValueFlags /\ Contains(BrdMarker, a[i])}

\* C17: a token containing "-brd" read as a flag switches broadcasting on,
\* takes no following token (the next token is read as a flag itself) and
\* is not forwarded; recording is switched off only by the exact token
\* -brdo, so -brdx leaves it on.
C17_BroadcastTokens ==
    (Parsed /\ BroadcastAt(Args) # {}) =>
        /\ session.broadcasting
        /\ session.recording <=> (\A i \in BroadcastAt(Args) : Args[i] # BrdoFlag)
        /\ Forwarded(session) = Unrecognized(Args, Len(Args))
        /\ \A i \in BroadcastAt(Args) :
              \A f \in ValueFlags :
                  (i < Len(Args) /\ Args[i + 1] = f
                        /\ Last(FlagAt(Args, f)) = i + 1) =>
                      Field(session, f) = Converted(f, Args[i + 2])

\* C17 witness: -brdx followed by a token that is forwarded; the session
\* broadcasts and still records
C17_Witness ==
    /\ Parsed
    /\ Len(Args) = 2
    /\ Args[1] = <<"-", "b", "r", "d", "x">>
    /\ Args[2] = <<"5">>
    /\ session.broadcasting
    /\ session.recording
    /\ Forwarded(session) = <<<<"5">>>>

\* C19: the token after a value flag is that flag's value and is never
\* read as a flag, even when it is a recognized flag: it is stored, it
\* switches neither broadcasting on nor recording off, and it sets no
\* field of its own. After -pr -brdo the name is -brdo, the session
\* records and does not broadcast; after -dir -i 5 the directory is -i, 5
\* is forwarded and the interval keeps its default.
C19_ValueNeverReadAsFlag ==
    Parsed =>
        /\ \A f \in ValueFlags :
              IF FlagAt(Args, f) = {}
              THEN Field(session, f) = Field(NewSession, f)
              ELSE Recognized(Args[Last(FlagAt(Args, f)) + 1]) =>
                      Field(session, f) =
                          Converted(f, Args[Last(FlagAt(Args, f)) + 1])
        /\ session.broadcasting => BroadcastAt(Args) # {}
        /\ ~session.recording => FlagAt(Args, BrdoFlag) # {}
        /\ Args = <<PrFlag, BrdoFlag>> =>
              /\ session.name = BrdoFlag
              /\ session.recording
              /\ ~session.broadcasting
        /\ Args = <<DirFlag, IFlag, <<"5">>>> =>
              /\ session.directory = IFlag
              /\ Forwarded(session) = <<<<"5">>>>
              /\ session.interval = NewSession.interval

\* C19 witness: -pr -brdo parsed, the name being -brdo
C19_Witness ==
    /\ Parsed
    /\ Args = <<PrFlag, BrdoFlag>>
    /\ session.name = BrdoFlag
    /\ session.recording
    /\ ~session.broadcasting
====
